---- MODULE Spec2Model ----
(***************************************************************************)
(* A model of parster (src/main.rs): the JSON value tree, its indenting    *)
(* renderer JSONValue::repr, and the recursive-descent parser JSON over a  *)
(* one-character lookahead (iter, cur_tok, pos).                           *)
(*                                                                         *)
(* Text is a sequence of characters, a character a string of length one.   *)
(* The parser is a sequential program: the recursion parse_any ->          *)
(* parse_object / parse_array -> parse_any runs on an explicit stack of    *)
(* frames, one action per stretch of code between two calls of parse_any   *)
(* (and one for the key's parse_string); the procedures that call nothing  *)
(* but next_tok (expect, parse_string, parse_number, parse_literal) are    *)
(* operators on the cursor.                                                *)
(***************************************************************************)
EXTENDS Integers, Sequences, FiniteSets, TLC

VARIABLES
    input,     \* main's `input`: the text handed to JSON::new
    src,       \* what the input text was written from (a value tree, a document)
    iter,      \* JSON.iter: the characters not read yet
    cur_tok,   \* JSON.cur_tok: the current character
    pos,       \* JSON.pos
    stack,     \* the frames of parse_object / parse_array, innermost first
    status,    \* where the program is: start, call, exec, done, panic
    ret        \* the value the last procedure returned

vars == <<input, src, iter, cur_tok, pos, stack, status, ret>>

(***************************************************************************)
(* Characters                                                              *)
(***************************************************************************)

\* '\0', what next_tok yields at the end of the input (line 119)
NUL == "\\0"

\* char::is_ascii_whitespace: space, tab, line feed, form feed, carriage return
is_ascii_whitespace(t) == t \in {" ", "\t", "\n", "\f", "\r"}

\* char::is_ascii_digit
is_ascii_digit(t) == t \in {"0", "1", "2", "3", "4", "5", "6", "7", "8", "9"}

DigitVal ==
    ("0" :> 0) @@ ("1" :> 1) @@ ("2" :> 2) @@ ("3" :> 3) @@ ("4" :> 4) @@
    ("5" :> 5) @@ ("6" :> 6) @@ ("7" :> 7) @@ ("8" :> 8) @@ ("9" :> 9)

DigitChar == <<"0", "1", "2", "3", "4", "5", "6", "7", "8", "9">>

\* The code point of each character the model's texts are written in: the
\* order of String keys in a BTreeMap is the order of their bytes.
CharCode ==
    ("\t" :> 9) @@ ("\n" :> 10) @@ ("\f" :> 12) @@ ("\r" :> 13) @@ (" " :> 32) @@
    ("\"" :> 34) @@ ("+" :> 43) @@ ("," :> 44) @@ ("-" :> 45) @@ ("." :> 46) @@
    ("0" :> 48) @@ ("1" :> 49) @@ ("2" :> 50) @@ ("3" :> 51) @@ ("4" :> 52) @@
    ("5" :> 53) @@ ("6" :> 54) @@ ("7" :> 55) @@ ("8" :> 56) @@ ("9" :> 57) @@
    (":" :> 58) @@ (";" :> 59) @@ ("B" :> 66) @@ ("E" :> 69) @@ ("[" :> 91) @@
    ("]" :> 93) @@ ("a" :> 97) @@ ("b" :> 98) @@ ("e" :> 101) @@ ("f" :> 102) @@
    ("l" :> 108) @@ ("n" :> 110) @@ ("r" :> 114) @@ ("s" :> 115) @@
    ("t" :> 116) @@ ("u" :> 117) @@ ("x" :> 120) @@ ("{" :> 123) @@ ("}" :> 125)

\* The first index of s holding a character of set, 0 when there is none.
RECURSIVE FirstIndexFrom(_, _, _)
FirstIndexFrom(s, set, i) ==
    IF i > Len(s) THEN 0
    ELSE IF s[i] \in set THEN i
    ELSE FirstIndexFrom(s, set, i + 1)

FirstIndex(s, set) == FirstIndexFrom(s, set, 1)

AllDigits(s) == \A i \in DOMAIN s : is_ascii_digit(s[i])

RECURSIVE Repeat(_, _)
Repeat(s, n) == IF n <= 0 THEN <<>> ELSE s \o Repeat(s, n - 1)

RECURSIVE Join(_, _)
Join(parts, sep) ==
    IF parts = <<>> THEN <<>>
    ELSE IF Len(parts) = 1 THEN parts[1]
    ELSE parts[1] \o sep \o Join(Tail(parts), sep)

(***************************************************************************)
(* f64: a finite value is its sign and its shortest decimal,               *)
(* mant * 10^(-scale) with mant not a multiple of 10 (0 is mant 0, scale   *)
(* 0). The texts of the model have far fewer than 15 significant digits,   *)
(* where decimal -> f64 -> shortest decimal is exact.                      *)
(***************************************************************************)

RECURSIVE DigitsVal(_)
DigitsVal(s) ==
    IF s = <<>> THEN 0
    ELSE 10 * DigitsVal(SubSeq(s, 1, Len(s) - 1)) + DigitVal[s[Len(s)]]

RECURSIVE NatToChars(_)
NatToChars(n) ==
    IF n < 10 THEN <<DigitChar[n + 1]>>
    ELSE NatToChars(n \div 10) \o <<DigitChar[(n % 10) + 1]>>

RECURSIVE F64(_, _, _)
F64(neg, mant, scale) ==
    IF mant = 0 THEN [neg |-> neg, mant |-> 0, scale |-> 0]
    ELSE IF mant % 10 = 0 THEN F64(neg, mant \div 10, scale - 1)
    ELSE [neg |-> neg, mant |-> mant, scale |-> scale]

\* str::parse::<f64> (line 203): [sign] digits ['.' digits] [(e|E) [sign] digits],
\* with a digit before or after the point; anything else is an Err.
ParseF64(s) ==
    LET signed    == s # <<>> /\ Head(s) \in {"+", "-"}
        neg       == signed /\ Head(s) = "-"
        body      == IF signed THEN Tail(s) ELSE s
        ei        == FirstIndex(body, {"e", "E"})
        mantTxt   == IF ei = 0 THEN body ELSE SubSeq(body, 1, ei - 1)
        expTxt    == IF ei = 0 THEN <<>> ELSE SubSeq(body, ei + 1, Len(body))
        di        == FirstIndex(mantTxt, {"."})
        intTxt    == IF di = 0 THEN mantTxt ELSE SubSeq(mantTxt, 1, di - 1)
        fracTxt   == IF di = 0 THEN <<>> ELSE SubSeq(mantTxt, di + 1, Len(mantTxt))
        expSigned == expTxt # <<>> /\ Head(expTxt) \in {"+", "-"}
        expDigits == IF expSigned THEN Tail(expTxt) ELSE expTxt
        expVal    == IF expSigned /\ Head(expTxt) = "-"
                     THEN 0 - DigitsVal(expDigits) ELSE DigitsVal(expDigits)
        ok        == /\ AllDigits(intTxt)
                     /\ AllDigits(fracTxt)
                     /\ Len(intTxt) + Len(fracTxt) >= 1
                     /\ (ei # 0 => expDigits # <<>> /\ AllDigits(expDigits))
    IN  IF ok
        THEN [ok |-> TRUE,
              v  |-> F64(neg, DigitsVal(intTxt \o fracTxt), Len(fracTxt) - expVal)]
        ELSE [ok |-> FALSE, v |-> F64(FALSE, 0, 0)]

\* f64::to_string (line 57): the shortest decimal, never with an exponent.
FormatF64(n) ==
    LET sign   == IF n.neg THEN <<"-">> ELSE <<>>
        digits == NatToChars(n.mant)
    IN  IF n.scale <= 0
        THEN sign \o digits \o Repeat(<<"0">>, 0 - n.scale)
        ELSE LET padded == Repeat(<<"0">>, n.scale + 1 - Len(digits)) \o digits
                 k      == Len(padded) - n.scale
             IN  sign \o SubSeq(padded, 1, k) \o <<".">>
                      \o SubSeq(padded, k + 1, Len(padded))

(***************************************************************************)
(* enum JSONValue (lines 8-15)                                             *)
(***************************************************************************)

Null      == [t |-> "Null"]
Bool(b)   == [t |-> "Bool", b |-> b]
Number(n) == [t |-> "Number", n |-> n]
String(s) == [t |-> "String", s |-> s]
Array(a)  == [t |-> "Array", a |-> a]
\* m: the entries <<key, value>> of the BTreeMap in its iteration order
Object(m) == [t |-> "Object", m |-> m]

\* No value: `ret` before any procedure has returned.
None == [t |-> "None"]

\* Ord for String: byte by byte, a proper prefix first.
RECURSIVE StrLess(_, _)
StrLess(a, b) ==
    IF b = <<>> THEN FALSE
    ELSE IF a = <<>> THEN TRUE
    ELSE IF CharCode[Head(a)] # CharCode[Head(b)]
         THEN CharCode[Head(a)] < CharCode[Head(b)]
    ELSE StrLess(Tail(a), Tail(b))

\* BTreeMap::new (line 147)
BTreeNew == <<>>

\* A map that keeps its entries in the order they were first inserted.
BTreeInsert_append(map, key, value) ==
    LET at == {i \in DOMAIN map : map[i][1] = key}
    IN  IF at # {}
        THEN [i \in DOMAIN map |-> IF i \in at THEN <<key, value>> ELSE map[i]]
        ELSE Append(map, <<key, value>>)

\* An insert that leaves the value of a key already present as it is.
BTreeInsert_keepFirst(map, key, value) ==
    LET less == {i \in DOMAIN map : StrLess(map[i][1], key)}
        n    == Cardinality(less)
    IN  IF \E i \in DOMAIN map : map[i][1] = key THEN map
        ELSE SubSeq(map, 1, n) \o <<<<key, value>>>> \o SubSeq(map, n + 1, Len(map))

\* BTreeMap::insert (line 160): the value of a key already present is
\* replaced where it stands; a new key goes to its place in key order.
BTreeInsert(map, key, value) ==
    LET at == {i \in DOMAIN map : map[i][1] = key}
    IN  IF at # {}
        THEN [i \in DOMAIN map |-> IF i \in at THEN <<key, value>> ELSE map[i]]
        ELSE LET less == {i \in DOMAIN map : StrLess(map[i][1], key)}
                 n    == Cardinality(less)
             IN  SubSeq(map, 1, n) \o <<<<key, value>>>> \o SubSeq(map, n + 1, Len(map))

(***************************************************************************)
(* JSONValue::repr (lines 18-61)                                           *)
(***************************************************************************)

RECURSIVE repr(_, _)
repr(v, indent) ==
    LET indstr    == Repeat(<<" ", " ">>, indent + 1)
        indstrend == Repeat(<<" ", " ">>, indent)
    IN  CASE v.t = "Null"   -> <<"n", "u", "l", "l">>
          [] v.t = "String" -> <<"\"">> \o v.s \o <<"\"">>
          [] v.t = "Object" ->
                IF Len(v.m) = 0 THEN <<"{", "}">>
                ELSE <<"{", "\n">>
                     \o Join([i \in DOMAIN v.m |->
                                 indstr \o <<"\"">> \o v.m[i][1] \o <<"\"", ":", " ">>
                                        \o repr(v.m[i][2], indent + 1)],
                             <<",", "\n">>)
                     \o <<"\n">> \o indstrend \o <<"}">>
          [] v.t = "Array"  ->
                IF Len(v.a) = 0 THEN <<"[", "]">>
                ELSE <<"[", "\n">>
                     \o Join([i \in DOMAIN v.a |-> indstr \o repr(v.a[i], indent + 1)],
                             <<",", "\n">>)
                     \o <<"\n">> \o indstrend \o <<"]">>
          [] v.t = "Number" -> FormatF64(v.n)
          [] v.t = "Bool"   -> IF v.b THEN <<"t", "r", "u", "e">>
                                      ELSE <<"f", "a", "l", "s", "e">>

(***************************************************************************)
(* struct JSON (lines 101-105): the cursor [iter, cur_tok, pos]            *)
(***************************************************************************)

\* JSON::new (lines 108-116): iter.next().unwrap() panics on an empty text;
\* the first character becomes cur_tok as it is.
JSON_new(text) ==
    IF text = <<>>
    THEN [ok |-> FALSE, c |-> [iter |-> <<>>, cur_tok |-> NUL, pos |-> 0]]
    ELSE [ok |-> TRUE,  c |-> [iter |-> Tail(text), cur_tok |-> Head(text), pos |-> 0]]

\* A next_tok that takes a whitespace character as the current one.
next_tok_noskip(c) ==
    [c EXCEPT !.iter    = IF c.iter = <<>> THEN <<>> ELSE Tail(c.iter),
              !.pos     = c.pos + 1,
              !.cur_tok = IF c.iter = <<>> THEN NUL ELSE Head(c.iter)]

\* JSON::next_tok (lines 118-126); the character returned is the new cur_tok.
RECURSIVE next_tok(_)
next_tok(c) ==
    LET t  == IF c.iter = <<>> THEN NUL ELSE Head(c.iter)
        c1 == [c EXCEPT !.iter = IF c.iter = <<>> THEN <<>> ELSE Tail(c.iter),
                        !.pos  = c.pos + 1]
    IN  IF is_ascii_whitespace(t) THEN next_tok(c1)
        ELSE [c1 EXCEPT !.cur_tok = t]

\* JSON::expect (lines 128-133): the message is formatted and dropped.
expect(c, ch) ==
    LET message == IF c.cur_tok # ch
                   THEN <<"Unexpected token", c.cur_tok, "Expected", ch>>
                   ELSE <<>>
    IN  next_tok(c)

\* Iterator::take_while on iter.by_ref() (line 207): the characters before the
\* first '"', and what is left of iter: the '"' that ended the scan is taken too.
TakeWhileNotQuote(it) ==
    LET q == FirstIndex(it, {"\""})
    IN  IF q = 0 THEN [taken |-> it, rest |-> <<>>]
        ELSE [taken |-> SubSeq(it, 1, q - 1), rest |-> SubSeq(it, q + 1, Len(it))]

\* JSON::parse_string (lines 206-211)
parse_string(c) ==
    LET striter == TakeWhileNotQuote(c.iter)
        s       == striter.taken
    IN  [ok |-> TRUE, v |-> String(s), c |-> next_tok([c EXCEPT !.iter = striter.rest])]

\* The loop of JSON::parse_number (lines 195-202): s and the cursor when the
\* loop breaks.
RECURSIVE number_loop(_, _)
number_loop(c, s) ==
    LET c1 == next_tok(c)
        t  == c1.cur_tok
    IN  IF is_ascii_digit(t) \/ t = "."
        THEN number_loop(c1, Append(s, t))
        ELSE [c |-> c1, s |-> s]

\* JSON::parse_number (lines 193-204): unwrap() panics on an Err.
parse_number(c) ==
    LET l == number_loop(c, <<c.cur_tok>>)
        n == ParseF64(l.s)
    IN  [ok |-> n.ok, v |-> Number(n.v), c |-> l.c]

\* biter.take(lit.len()).eq(lit.chars()) (lines 217, 222, 227): whether the next
\* characters of iter are lit, and what is left of iter; a mismatch or the end
\* of iter stops the comparison.
RECURSIVE TakeEq(_, _)
TakeEq(it, lit) ==
    IF lit = <<>> THEN [eq |-> TRUE, rest |-> it]
    ELSE IF it = <<>> THEN [eq |-> FALSE, rest |-> <<>>]
    ELSE IF Head(it) = Head(lit) THEN TakeEq(Tail(it), Tail(lit))
    ELSE [eq |-> FALSE, rest |-> Tail(it)]

\* const FALSE, TRUE, NULL (lines 97-99)
FALSE_TAIL == <<"a", "l", "s", "e">>
TRUE_TAIL  == <<"r", "u", "e">>
NULL_TAIL  == <<"u", "l", "l">>

\* JSON::parse_literal (lines 213-233): assert! panics on a mismatch.
parse_literal(c) ==
    LET lit == CASE c.cur_tok = "t" -> TRUE_TAIL
                 [] c.cur_tok = "f" -> FALSE_TAIL
                 [] c.cur_tok = "n" -> NULL_TAIL
                 [] OTHER           -> <<>>
        val == CASE c.cur_tok = "t" -> Bool(TRUE)
                 [] c.cur_tok = "f" -> Bool(FALSE)
                 [] OTHER           -> Null
        m   == TakeEq(c.iter, lit)
        c1  == [c EXCEPT !.iter = m.rest]
    IN  IF c.cur_tok \notin {"t", "f", "n"} THEN [ok |-> FALSE, v |-> None, c |-> c]
        ELSE IF ~m.eq THEN [ok |-> FALSE, v |-> None, c |-> c1]
        ELSE [ok |-> TRUE, v |-> val, c |-> next_tok(c1)]

(***************************************************************************)
(* The parser as a program. m is the state of the run: the cursor, the     *)
(* stack of the calls of parse_object and parse_array that have not       *)
(* returned, the last value returned, and status:                          *)
(*   start  before JSON::new          call  parse_any is being called      *)
(*   exec   the innermost frame runs from its pc (main, when there is none)*)
(*   done   parse has returned        panic the program has panicked       *)
(***************************************************************************)

Cursor(m) == [iter |-> m.iter, cur_tok |-> m.cur_tok, pos |-> m.pos]

WithCursor(m, c) == [m EXCEPT !.iter = c.iter, !.cur_tok = c.cur_tok, !.pos = c.pos]

\* The characters of the input not consumed yet: the current one and iter's.
Remaining(m) == Len(m.iter) + (IF m.cur_tok = NUL THEN 0 ELSE 1)

\* A call of parse_object or parse_array: its place (pc), its locals (map,
\* key; arr), and what was left of the input when it was entered.
Frame(m, proc) ==
    [proc |-> proc, pc |-> "open", map |-> BTreeNew, arr |-> <<>>, key |-> <<>>,
     entry |-> Remaining(m)]

Panic(m) == [m EXCEPT !.status = "panic"]

\* A procedure returns v to its caller with the cursor at c.
Return(m, c, v) == [WithCursor(m, c) EXCEPT !.ret = v, !.status = "exec"]

\* parse_string, parse_number or parse_literal called by parse_any
Leaf(m, r) == IF r.ok THEN Return(m, r.c, r.v) ELSE Panic(WithCursor(m, r.c))

\* JSON::parse_any (lines 135-144)
parse_any(m) ==
    CASE m.cur_tok = "{" ->
            [m EXCEPT !.stack = <<Frame(m, "parse_object")>> \o m.stack, !.status = "exec"]
      [] m.cur_tok = "[" ->
            [m EXCEPT !.stack = <<Frame(m, "parse_array")>> \o m.stack, !.status = "exec"]
      [] m.cur_tok \in {"t", "f", "n"} -> Leaf(m, parse_literal(Cursor(m)))
      [] m.cur_tok = "\"" -> Leaf(m, parse_string(Cursor(m)))
      [] is_ascii_digit(m.cur_tok) \/ m.cur_tok = "-" -> Leaf(m, parse_number(Cursor(m)))
      [] OTHER -> Panic(m)

\* The innermost frame, and the run with that frame changed or popped.
Top(m) == Head(m.stack)

SetTop(m, f) == [m EXCEPT !.stack = <<f>> \o Tail(m.stack)]

Pop(m, c, v) == [Return(m, c, v) EXCEPT !.stack = Tail(m.stack)]

\* JSON::parse_object, lines 147-152: to the return of the empty object or to
\* the head of the loop.
parse_object_open(m) ==
    LET c == expect(Cursor(m), "{")
    IN  IF c.cur_tok = "}"
        THEN Pop(m, next_tok(c), Object(Top(m).map))
        ELSE SetTop(WithCursor(m, c), [Top(m) EXCEPT !.pc = "key"])

\* JSON::parse_object, lines 154-157: the key.
parse_object_key(m) ==
    LET r   == parse_string(Cursor(m))
        key == IF r.v.t = "String" THEN r.v.s ELSE <<>>
    IN  SetTop(WithCursor(m, r.c), [Top(m) EXCEPT !.key = key, !.pc = "colon"])

\* JSON::parse_object, lines 158-159: expect(':') and the call of parse_any.
parse_object_colon(m) ==
    LET c == expect(Cursor(m), ":")
    IN  [SetTop(WithCursor(m, c), [Top(m) EXCEPT !.pc = "insert"]) EXCEPT !.status = "call"]

\* JSON::parse_object, lines 160-169: the value has come back in ret.
parse_object_insert(m) ==
    LET map == BTreeInsert(Top(m).map, Top(m).key, m.ret)
        c   == m.cur_tok
        cur == next_tok(Cursor(m))
    IN  CASE c = "," -> SetTop(WithCursor(m, cur), [Top(m) EXCEPT !.map = map, !.pc = "key"])
          [] c = "}" -> Pop(m, cur, Object(map))
          [] OTHER   -> Panic(SetTop(WithCursor(m, cur), [Top(m) EXCEPT !.map = map]))

\* JSON::parse_array, lines 173-180: to the return of the empty array or to the
\* first call of parse_any.
parse_array_open(m) ==
    LET c == expect(Cursor(m), "[")
    IN  IF c.cur_tok = "]"
        THEN Pop(m, next_tok(c), Array(Top(m).arr))
        ELSE [SetTop(WithCursor(m, c), [Top(m) EXCEPT !.pc = "push"]) EXCEPT !.status = "call"]

\* JSON::parse_array, lines 181-190: the value has come back in ret.
parse_array_push(m) ==
    LET arr == Append(Top(m).arr, m.ret)
        c   == m.cur_tok
        cur == next_tok(Cursor(m))
    IN  CASE c = "," -> [SetTop(WithCursor(m, cur), [Top(m) EXCEPT !.arr = arr])
                            EXCEPT !.status = "call"]
          [] c = "]" -> Pop(m, cur, Array(arr))
          [] OTHER   -> Panic(SetTop(WithCursor(m, cur), [Top(m) EXCEPT !.arr = arr]))

\* JSON::parse (lines 235-237) returns to main (line 257).
parse_return(m) == [m EXCEPT !.status = "done"]

\* JSON::new(input).parse() (line 257), to the call of parse_any.
main_new(m, text) ==
    LET j == JSON_new(text)
    IN  [WithCursor(m, j.c) EXCEPT !.status = IF j.ok THEN "call" ELSE "panic"]

\* The run before JSON::new.
Start == [iter |-> <<>>, cur_tok |-> NUL, pos |-> 0, stack |-> <<>>,
          status |-> "start", ret |-> None]

\* Which stretch of code runs next.
At(m, proc, pc) ==
    m.status = "exec" /\ m.stack # <<>> /\ Top(m).proc = proc /\ Top(m).pc = pc

\* One step of a run that has been constructed and has not ended.
Step(m) ==
    CASE m.status = "call"                -> parse_any(m)
      [] At(m, "parse_object", "open")    -> parse_object_open(m)
      [] At(m, "parse_object", "key")     -> parse_object_key(m)
      [] At(m, "parse_object", "colon")   -> parse_object_colon(m)
      [] At(m, "parse_object", "insert")  -> parse_object_insert(m)
      [] At(m, "parse_array", "open")     -> parse_array_open(m)
      [] At(m, "parse_array", "push")     -> parse_array_push(m)
      [] m.status = "exec" /\ m.stack = <<>> -> parse_return(m)
      [] OTHER                            -> m

\* JSON::new(text).parse(): the run of the program on text, to its end.
RECURSIVE RunFrom(_)
RunFrom(m) == IF m.status \in {"done", "panic"} THEN m ELSE RunFrom(Step(m))

Parse(text) == RunFrom(main_new(Start, text))

(***************************************************************************)
(* The state machine                                                       *)
(***************************************************************************)

M == [iter |-> iter, cur_tok |-> cur_tok, pos |-> pos, stack |-> stack,
      status |-> status, ret |-> ret]

Set(m) ==
    /\ iter' = m.iter
    /\ cur_tok' = m.cur_tok
    /\ pos' = m.pos
    /\ stack' = m.stack
    /\ status' = m.status
    /\ ret' = m.ret
    /\ UNCHANGED <<input, src>>

New == status = "start" /\ Set(main_new(M, input))

ParseAny == status = "call" /\ Set(parse_any(M))

ObjectOpen == At(M, "parse_object", "open") /\ Set(parse_object_open(M))

ObjectKey == At(M, "parse_object", "key") /\ Set(parse_object_key(M))

ObjectColon == At(M, "parse_object", "colon") /\ Set(parse_object_colon(M))

ObjectInsert == At(M, "parse_object", "insert") /\ Set(parse_object_insert(M))

ArrayOpen == At(M, "parse_array", "open") /\ Set(parse_array_open(M))

ArrayPush == At(M, "parse_array", "push") /\ Set(parse_array_push(M))

ParseReturn == status = "exec" /\ stack = <<>> /\ Set(parse_return(M))

Next ==
    \/ New
    \/ ParseAny
    \/ ObjectOpen
    \/ ObjectKey
    \/ ObjectColon
    \/ ObjectInsert
    \/ ArrayOpen
    \/ ArrayPush
    \/ ParseReturn

InitRun ==
    /\ iter = Start.iter
    /\ cur_tok = Start.cur_tok
    /\ pos = Start.pos
    /\ stack = Start.stack
    /\ status = Start.status
    /\ ret = Start.ret

(***************************************************************************)
(* Input texts                                                             *)
(***************************************************************************)

MaxTokens  == 3   \* pieces of an arbitrary text
MaxElems   == 2   \* children of a container of a rendered value tree
MaxEntries == 3   \* entries of a written object, repeated keys included

\* The sequences over S of length at most n.
SeqsUpTo(S, n) == UNION {[1..k -> S] : k \in 0..n}

\* The concatenation of a sequence of texts.
RECURSIVE Flatten(_)
Flatten(parts) == IF parts = <<>> THEN <<>> ELSE Head(parts) \o Flatten(Tail(parts))

\* A value tree written compactly, token by token; an Object is written in the
\* order of its entries, whatever that order is.
RECURSIVE WriteTokens(_)
WriteTokens(v) ==
    CASE v.t = "Array" ->
            <<<<"[">>>>
            \o Flatten([i \in DOMAIN v.a |->
                           (IF i = 1 THEN <<>> ELSE <<<<",">>>>) \o WriteTokens(v.a[i])])
            \o <<<<"]">>>>
      [] v.t = "Object" ->
            <<<<"{">>>>
            \o Flatten([i \in DOMAIN v.m |->
                           (IF i = 1 THEN <<>> ELSE <<<<",">>>>)
                           \o <<<<"\"">> \o v.m[i][1] \o <<"\"">>, <<":">>>>
                           \o WriteTokens(v.m[i][2])])
            \o <<<<"}">>>>
      [] OTHER -> <<repr(v, 0)>>

Write(v) == Flatten(WriteTokens(v))

\* ---- arbitrary texts: up to MaxTokens pieces, and sample documents with one
\* ---- character deleted or replaced

Pieces ==
    {<<"{">>, <<"}">>, <<"[">>, <<"]">>, <<":">>, <<",">>, <<";">>, <<"\"">>,
     <<"a">>, <<"1">>, <<"2">>, <<"-">>, <<".">>, <<"e">>, <<"+">>, <<" ">>, <<"\n">>,
     <<"t", "r", "u", "e">>, <<"f", "a", "l", "s", "e">>, <<"n", "u", "l", "l">>,
     <<"\"", "a", "\"">>, <<"\"", "b", "\"">>}

RECURSIVE TextsOf(_)
TextsOf(n) ==
    IF n = 0 THEN {<<>>}
    ELSE LET shorter == TextsOf(n - 1)
         IN  shorter \cup {t \o p : t \in shorter, p \in Pieces}

One == F64(FALSE, 1, 0)
Two == F64(FALSE, 2, 0)

SampleDocs ==
    {Object(<<<<<<"a">>, Number(One)>>, <<<<"b">>, Array(<<Number(Two), Bool(TRUE)>>)>>>>),
     Array(<<Number(One), Number(Two)>>),
     Array(<<String(<<"a">>), Object(<<<<<<"b">>, Null>>>>)>>)}

Replacements == {";", " ", "\"", "1", ","}

EditsOf(t) ==
    {SubSeq(t, 1, i - 1) \o SubSeq(t, i + 1, Len(t)) : i \in DOMAIN t}
    \cup {[t EXCEPT ![i] = r] : i \in DOMAIN t, r \in Replacements}

Texts == TextsOf(MaxTokens) \cup UNION {EditsOf(Write(d)) : d \in SampleDocs}

\* ---- value trees to render

Numbers ==
    {F64(FALSE, 0, 0), F64(TRUE, 0, 0), One, F64(TRUE, 25, 1), F64(FALSE, 5, 2),
     F64(FALSE, 12, -2), F64(TRUE, 1, -1)}

Strings == {<<>>, <<" ", "a", " ", "b">>, <<"}", ",">>, <<"t">>, <<"\n">>}

Leaves ==
    {Null, Bool(TRUE), Bool(FALSE)}
    \cup {Number(n) : n \in Numbers} \cup {String(x) : x \in Strings}

\* The keys of the rendered objects, in the order of their bytes.
Keys == <<<<>>, <<"a">>, <<"a", "b">>, <<"b">>>>

\* The sorted entries of the map that holds f[i] at Keys[i] for the i in ks.
RECURSIVE EntriesFrom(_, _, _)
EntriesFrom(ks, f, i) ==
    IF i > Len(Keys) THEN <<>>
    ELSE (IF i \in ks THEN <<<<Keys[i], f[i]>>>> ELSE <<>>) \o EntriesFrom(ks, f, i + 1)

ArraysOver(S, n) == {Array(a) : a \in SeqsUpTo(S, n)}

ObjectsOver(S, n) ==
    UNION {{Object(EntriesFrom(ks, f, 1)) : f \in [ks -> S]} :
              ks \in {k \in SUBSET DOMAIN Keys : Cardinality(k) <= n}}

Children ==
    {Null, Bool(TRUE), Number(F64(TRUE, 25, 1)), String(<<" ", "a", " ", "b">>), String(<<>>)}

Level1 == ArraysOver(Children, MaxElems) \cup ObjectsOver(Children, MaxElems)

Inner ==
    {Number(One), Array(<<>>), Object(<<>>), Array(<<Null, Number(F64(FALSE, 5, 2))>>),
     Object(<<<<<<"a">>, String(<<"t">>)>>, <<<<"b">>, Bool(FALSE)>>>>),
     Array(<<Object(<<<<<<>>, Array(<<Number(One)>>)>>>>)>>)}

Level2 == ArraysOver(Inner, MaxElems) \cup ObjectsOver(Inner, MaxElems)

Values == Leaves \cup Level1 \cup Level2

\* ---- written objects with repeated keys

EntryKeys == {<<"b">>, <<"a">>, <<"a", "b">>}

EntryValues == {Number(One), Array(<<Bool(FALSE)>>), Object(<<<<<<"b">>, String(<<"s">>)>>>>)}

EntryLists == SeqsUpTo(EntryKeys \X EntryValues, MaxEntries)

\* ---- documents with whitespace between their tokens

WsRuns == {<<" ">>, <<"\n", " ", " ">>, <<"\t">>}

\* toks with ws put in the gaps: gap 0 is before the first token, gap i after
\* the i-th.
Spaced(toks, gaps, ws) ==
    (IF 0 \in gaps THEN ws ELSE <<>>)
    \o Flatten([i \in DOMAIN toks |-> toks[i] \o (IF i \in gaps THEN ws ELSE <<>>)])

WsCases ==
    UNION {LET toks == WriteTokens(d)
           IN  {[toks |-> toks, gaps |-> g, ws |-> w] :
                   g \in {{i} : i \in 0..Len(toks)} \cup {0..Len(toks), 1..Len(toks)},
                   w \in WsRuns}
           : d \in SampleDocs \cup {Number(One), String(<<"a">>), Bool(TRUE)}}

(***************************************************************************)
(* Specifications: the same program on four families of input texts        *)
(***************************************************************************)

InitText == InitRun /\ src = <<>> /\ input \in Texts

InitRender == InitRun /\ src \in Values /\ input = repr(src, 0)

InitDoc == InitRun /\ src \in EntryLists /\ input = Write(Object(src))

InitWs == InitRun /\ src \in WsCases /\ input = Spaced(src.toks, src.gaps, src.ws)

SpecText == InitText /\ [][Next]_vars

SpecRender == InitRender /\ [][Next]_vars

SpecDoc == InitDoc /\ [][Next]_vars

SpecWs == InitWs /\ [][Next]_vars

Ended == status \in {"done", "panic"}

(***************************************************************************)
(* What the claims speak of                                                *)
(***************************************************************************)

\* ---- the JSON grammar (RFC 8259), for "a well-formed JSON document". Each
\* ---- recogniser takes the index where its production starts and gives the
\* ---- index after it, 0 when the text does not match.

RECURSIVE SkipWs(_, _)
SkipWs(t, i) ==
    IF i <= Len(t) /\ t[i] \in {" ", "\t", "\n", "\r"} THEN SkipWs(t, i + 1) ELSE i

CharAt(t, i) == IF i >= 1 /\ i <= Len(t) THEN t[i] ELSE NUL

RECURSIVE SkipDigits(_, _)
SkipDigits(t, i) == IF is_ascii_digit(CharAt(t, i)) THEN SkipDigits(t, i + 1) ELSE i

GString(t, i) ==
    LET q == FirstIndexFrom(t, {"\""}, i + 1)
    IN  IF CharAt(t, i) # "\"" \/ q = 0 THEN 0
        ELSE IF \E k \in (i + 1)..(q - 1) : t[k] \in {"\t", "\n", "\f", "\r"} THEN 0
        ELSE q + 1

GNumber(t, i) ==
    LET a == IF CharAt(t, i) = "-" THEN i + 1 ELSE i
        b == IF CharAt(t, a) = "0" THEN a + 1 ELSE SkipDigits(t, a)
        c == IF CharAt(t, b) = "." THEN SkipDigits(t, b + 1) ELSE b
        d == IF CharAt(t, c) \in {"e", "E"}
             THEN (IF CharAt(t, c + 1) \in {"+", "-"} THEN c + 2 ELSE c + 1)
             ELSE c
        e == IF d = c THEN c ELSE SkipDigits(t, d)
    IN  IF b = a \/ (CharAt(t, b) = "." /\ c = b + 1) \/ (d # c /\ e = d) THEN 0 ELSE e

GWord(t, i, w) ==
    IF i + Len(w) - 1 <= Len(t) /\ SubSeq(t, i, i + Len(w) - 1) = w THEN i + Len(w) ELSE 0

RECURSIVE GValue(_, _)
RECURSIVE GMembers(_, _)
RECURSIVE GElements(_, _)

GValue(t, i) ==
    LET c == CharAt(t, i)
        j == SkipWs(t, i + 1)
    IN  CASE c = "{"  -> IF CharAt(t, j) = "}" THEN j + 1 ELSE GMembers(t, j)
          [] c = "["  -> IF CharAt(t, j) = "]" THEN j + 1 ELSE GElements(t, j)
          [] c = "\"" -> GString(t, i)
          [] c = "t"  -> GWord(t, i, <<"t", "r", "u", "e">>)
          [] c = "f"  -> GWord(t, i, <<"f", "a", "l", "s", "e">>)
          [] c = "n"  -> GWord(t, i, <<"n", "u", "l", "l">>)
          [] c = "-" \/ is_ascii_digit(c) -> GNumber(t, i)
          [] OTHER    -> 0

GMembers(t, i) ==
    LET k  == GString(t, i)
        c  == SkipWs(t, k)
        v  == GValue(t, SkipWs(t, c + 1))
        e  == SkipWs(t, v)
    IN  IF k = 0 \/ CharAt(t, c) # ":" \/ v = 0 THEN 0
        ELSE IF CharAt(t, e) = "," THEN GMembers(t, SkipWs(t, e + 1))
        ELSE IF CharAt(t, e) = "}" THEN e + 1
        ELSE 0

GElements(t, i) ==
    LET v == GValue(t, i)
        e == SkipWs(t, v)
    IN  IF v = 0 THEN 0
        ELSE IF CharAt(t, e) = "," THEN GElements(t, SkipWs(t, e + 1))
        ELSE IF CharAt(t, e) = "]" THEN e + 1
        ELSE 0

WellFormed(t) ==
    LET e == GValue(t, SkipWs(t, 1))
    IN  e # 0 /\ SkipWs(t, e) = Len(t) + 1

\* ---- helpers of the claims

KeysOf(v) == [i \in DOMAIN v.m |-> v.m[i][1]]

\* The keys of a list of entries in the order of their first occurrence.
RECURSIVE FirstOccurrences(_)
FirstOccurrences(entries) ==
    IF entries = <<>> THEN <<>>
    ELSE LET before == FirstOccurrences(SubSeq(entries, 1, Len(entries) - 1))
             k      == entries[Len(entries)][1]
         IN  IF \E i \in DOMAIN before : before[i] = k THEN before ELSE Append(before, k)

\* The keys of the written objects in the order of their bytes: a < ab < b.
EntryKeyOrder == <<<<"a">>, <<"a", "b">>, <<"b">>>>

Occurs(k) == {i \in DOMAIN src : src[i][1] = k}

Last(S) == CHOOSE i \in S : \A j \in S : j <= i

\* The keys of the written object in the order of their bytes, and the text of
\* an object rendered in that order, each key with the value written last.
SortedKeys == SelectSeq(EntryKeyOrder, LAMBDA k : Occurs(k) # {})

SortedText ==
    IF SortedKeys = <<>> THEN <<"{", "}">>
    ELSE <<"{", "\n">>
         \o Join([i \in DOMAIN SortedKeys |->
                     <<" ", " ", "\"">> \o SortedKeys[i] \o <<"\"", ":", " ">>
                     \o repr(src[Last(Occurs(SortedKeys[i]))][2], 1)],
                 <<",", "\n">>)
         \o <<"\n", "}">>

\* The characters a number may be written in, by the specification.
NumberChars == {"0", "1", "2", "3", "4", "5", "6", "7", "8", "9", ".", "-", "+", "e", "E"}

\* How many characters at the head of s are in set.
RECURSIVE RunLength(_, _)
RunLength(s, set) ==
    IF s # <<>> /\ Head(s) \in set THEN 1 + RunLength(Tail(s), set) ELSE 0

\* parse_any is about to call parse_number.
NumberCall == status = "call" /\ (is_ascii_digit(cur_tok) \/ cur_tok = "-")

\* parse_any is about to call parse_string, parse_number or parse_literal.
LeafCall == status = "call" /\ cur_tok \notin {"{", "["}

(***************************************************************************)
(* The claims                                                              *)
(***************************************************************************)

\* C1: a value tree whose strings and keys hold no double quote, rendered at
\* depth 0 and parsed, gives the tree back: the parse does not panic, runs to
\* its end, and returns a tree equal to the one rendered.
C1_RoundTrip ==
    /\ status # "panic"
    /\ (status \in {"call", "exec"} => Step(M) # M)
    /\ (status = "done" => ret = src)

\* C1's case: a nested object with two entries has been rendered and parsed back.
C1_Witness ==
    /\ status = "done"
    /\ src \in Level2
    /\ src.t = "Object"
    /\ Len(src.m) = 2
    /\ ret = src

\* C2: parse never returns a value tree for a text that is not a well-formed
\* JSON document.
C2_MalformedInputFails == status = "done" => WellFormed(input)

\* C3: whitespace put between the tokens of a valid document (before the
\* first, between two, after the last) changes nothing: the parse succeeds and
\* returns what the parse of the document without it returns.
C3_WhitespaceInsensitive ==
    Ended => /\ status = "done"
             /\ Parse(Flatten(src.toks)).status = "done"
             /\ ret = Parse(Flatten(src.toks)).ret

\* The same for whitespace after the first token only.
WhitespaceAfterFirstToken == 0 \notin src.gaps => C3_WhitespaceInsensitive

\* C4, as claimed: the entries of a parsed Object are in the order of the
\* first occurrence of their keys in the input.
C4_InsertionOrder == status = "done" => KeysOf(ret) = FirstOccurrences(src)

\* C4, amended: the entries of a parsed Object are in the ascending byte order
\* of their keys, one entry for each key of the input, whatever the order of
\* the keys in the input.
C4_KeyOrder ==
    status = "done" =>
        /\ ret.t = "Object"
        /\ KeysOf(ret) = SortedKeys
        /\ repr(ret, 0) = SortedText

\* C4's case: an object written with b before a has been parsed.
C4_Witness ==
    /\ status = "done"
    /\ Len(src) >= 2
    /\ src[1][1] = <<"b">>
    /\ src[2][1] = <<"a">>
    /\ Len(ret.m) >= 2

\* C5: a key written several times in an object has exactly one entry in the
\* parsed Object, holding the value of its last occurrence; every other key of
\* the input has its own entry, and there are no entries besides.
C5_LastValueWins ==
    /\ status # "panic"
    /\ status = "done" =>
          /\ ret.t = "Object"
          /\ \A j \in DOMAIN ret.m : ret.m[j][1] \in EntryKeys
          /\ \A k \in EntryKeys :
                LET at == {j \in DOMAIN ret.m : ret.m[j][1] = k}
                IN  IF Occurs(k) = {} THEN at = {}
                    ELSE /\ Cardinality(at) = 1
                         /\ \A j \in at : ret.m[j][2] = src[Last(Occurs(k))][2]

\* C5's case: a key written twice with two values, and another key besides.
C5_Witness ==
    /\ status = "done"
    /\ Len(src) = 3
    /\ src[1][1] = src[3][1]
    /\ src[1][2] # src[3][2]
    /\ src[2][1] # src[1][1]
    /\ Len(ret.m) = 2

\* C6: over the empty text JSON::new gives a cursor at the end-of-input
\* sentinel, and the parse of a value that follows fails without reading on.
C6_EmptyInput ==
    [][input = <<>> =>
          /\ status = "start" => (status' = "call" /\ cur_tok' = NUL /\ iter' = <<>>)
          /\ status = "call" => (status' = "panic" /\ iter' = iter)]_vars

\* C7: expect(ch) fails when the current character is not ch, the parse is
\* aborted and the cursor stays; when it is ch, expect is next_tok. (Of the
\* calls of expect only expect(':') can meet another character.)
C7_ExpectFails ==
    [][At(M, "parse_object", "colon") =>
          IF cur_tok # ":"
          THEN status' = "panic" /\ iter' = iter /\ cur_tok' = cur_tok
          ELSE [iter |-> iter', cur_tok |-> cur_tok', pos |-> pos'] = next_tok(Cursor(M))]_vars

\* C8: parse_number, entered at a digit or '-', takes the longest run of
\* NumberChars that starts at the current character and nothing else; it
\* returns the value of that text, or fails when the text is no number; on
\* success the current character is the first significant one after the run.
C8_MaximalRun ==
    [][NumberCall =>
          LET n     == RunLength(iter, NumberChars)
              run   == <<cur_tok>> \o SubSeq(iter, 1, n)
              after == next_tok([iter |-> SubSeq(iter, n + 1, Len(iter)),
                                 cur_tok |-> cur_tok, pos |-> pos])
              value == ParseF64(run)
          IN  IF value.ok
              THEN status' = "exec" /\ ret' = Number(value.v) /\ cur_tok' = after.cur_tok
              ELSE status' = "panic"]_vars

\* C9 (the part a step of the run decides): a grammar procedure that returns
\* has consumed at least one character of the input.
C9_ProceduresConsume ==
    [][/\ (LeafCall /\ status' = "exec") => Remaining(M)' < Remaining(M)
       /\ At(M, "parse_object", "key") => Remaining(M)' < Remaining(M)
       /\ (status = "exec" /\ stack # <<>> /\ stack' = Tail(stack))
             => Remaining(M)' < Top(M).entry]_vars

\* C9 (the part a whole run decides): the parse of every text ends. Every step
\* of a constructed run lowers Rank, which is never negative, and a run that has
\* not ended has a next step.
Stage ==
    CASE status = "call"                 -> 1
      [] At(M, "parse_object", "colon")  -> 2
      [] At(M, "parse_object", "key")    -> 3
      [] At(M, "parse_object", "open")   -> 0
      [] At(M, "parse_array", "open")    -> 0
      [] status = "exec"                 -> 4
      [] OTHER                           -> 0

Rank == 8 * Remaining(M) + Stage

Terminates ==
    [][status # "start" => (Rank' < Rank /\ Rank' >= 0)]_vars

NeverStuck == status \in {"call", "exec"} => Step(M) # M

\* C10: once the cursor is constructed over a non-empty text, the current
\* character is never ASCII whitespace.
C10_NeverWhitespace ==
    (status # "start" /\ input # <<>>) => ~is_ascii_whitespace(cur_tok)

\* The same once next_tok has run.
NeverWhitespaceAfterNextTok == pos > 0 => ~is_ascii_whitespace(cur_tok)

====
